---- MODULE Spec2Model ----
(***************************************************************************)
(* Model of src/horse_racing_app.py: the HorseRacingPredictor scoring      *)
(* engine and the Streamlit session around it.                             *)
(*                                                                         *)
(* Numbers.  Python floats are carried as integers in fixed point:         *)
(*   - the speed score in ten-thousandths (120 = 1200000);                 *)
(*   - the other sub-scores and the composite score in millionths          *)
(*     (1.0 = 1000000), so that speed * w and sub * 100 * w are both the   *)
(*     sub-score times the weight in hundredths;                           *)
(*   - win percentages entered in the form in thousandths (12.0% = 120);   *)
(*   - track multipliers and the distance factor in hundredths;            *)
(*   - the race distance in tenths of a furlong;                           *)
(*   - Score in hundredths, Win_Probability in tenths of a percent,        *)
(*     Beyer_Figure in tenths, the other columns in thousandths.           *)
(* A Python exception is a value [exc |-> <name>, val |-> ...] with a      *)
(* non-empty exc; a normal return has exc = "".                            *)
(***************************************************************************)
EXTENDS Integers, Sequences, FiniteSets

VARIABLES
    horses,         \* st.session_state.horses
    predictions,    \* what the prediction section of the last script run did
    clear_button,   \* TRUE iff the last script run rendered "Clear All Horses"
    argsort_ties,   \* how this build's quicksort argsort orders equal keys
    horse_data,     \* engine harness: the entry handed to one scoring method
    returned        \* engine harness: the method called and what it returned

vars == <<horses, predictions, clear_button, argsort_ties, horse_data, returned>>

(***************************************************************************)
(* Python values                                                           *)
(***************************************************************************)
Ok(v) == [exc |-> "", val |-> v]

Raise(e) == [exc |-> e, val |-> 0]

\* dict.get(key, default)
get(d, key, default) == IF key \in DOMAIN d THEN d[key] ELSE default

\* built-in min and max
min(a, b) == IF a <= b THEN a ELSE b

max(a, b) == IF a >= b THEN a ELSE b

\* n / d rounded to the nearest integer, ties to even (Python 3 round, numpy
\* round); d may be negative.
RoundHalfEven(n, d) ==
    LET nn == IF d < 0 THEN -n ELSE n
        dd == IF d < 0 THEN -d ELSE d
        q == nn \div dd
        r == nn % dd
    IN  IF 2 * r < dd THEN q
        ELSE IF 2 * r > dd THEN q + 1
        ELSE IF q % 2 = 0 THEN q ELSE q + 1

RECURSIVE SumFirst(_, _)
\* s[1] + ... + s[n]
SumFirst(s, n) == IF n = 0 THEN 0 ELSE SumFirst(s, n - 1) + s[n]

\* built-in sum
SeqSum(s) == SumFirst(s, Len(s))

(***************************************************************************)
(* HorseRacingPredictor.__init__                                           *)
(***************************************************************************)
\* self.weights, in hundredths
weights ==
    [speed_figure |-> 25, recent_form |-> 20, class_level |-> 15,
     jockey_skill |-> 12, trainer_stats |-> 12, post_position |-> 8,
     track_condition |-> 5, distance_fitness |-> 3]

\* self.track_variants, in hundredths
track_variants ==
    [fast |-> 100, good |-> 102, sloppy |-> 105,
     muddy |-> 108, turf_firm |-> 98, turf_good |-> 100]

\* self.post_position_weights (keys 1..15), in millionths
post_position_weights ==
    <<850000, 900000, 920000, 950000, 970000,
      1000000, 980000, 950000, 920000, 900000,
      850000, 800000, 750000, 700000, 650000>>

(***************************************************************************)
(* The scoring methods                                                     *)
(***************************************************************************)
\* The uncapped speed: the variant of calculate_speed_score that returns
\* adjusted_speed without min(adjusted_speed, 120).
calculate_speed_score_uncapped(hd) ==
    LET base_speed == get(hd, "beyer_speed_figure", 70)
        track_adj == get(track_variants, get(hd, "track_condition", "fast"), 100)
        distance == get(hd, "race_distance", 60)
        distance_factor == IF distance <= 65 THEN 100 ELSE 95
        recent_speeds == get(hd, "recent_beyer_figures", <<base_speed>>)
        n == Len(recent_speeds)
    IN  IF n >= 3 /\ recent_speeds[n - 2] = 0 THEN Raise("ZeroDivisionError")
        ELSE IF n >= 3
        THEN Ok(RoundHalfEven(base_speed * track_adj * distance_factor
                                * (recent_speeds[n - 2] + recent_speeds[n]),
                              2 * recent_speeds[n - 2]))
        ELSE Ok(base_speed * track_adj * distance_factor)

\* calculate_speed_score, in ten-thousandths.  With trend = (last - third) /
\* third, trend_factor = 1 + trend * 0.5 = (third + last) / (2 * third), and
\* base_speed * track_adj * distance_factor is already in ten-thousandths.
calculate_speed_score(hd) ==
    LET base_speed == get(hd, "beyer_speed_figure", 70)
        track_adj == get(track_variants, get(hd, "track_condition", "fast"), 100)
        distance == get(hd, "race_distance", 60)
        distance_factor == IF distance <= 65 THEN 100 ELSE 95
        recent_speeds == get(hd, "recent_beyer_figures", <<base_speed>>)
        n == Len(recent_speeds)
    IN  IF n >= 3 /\ recent_speeds[n - 2] = 0 THEN Raise("ZeroDivisionError")
        ELSE LET adjusted_speed ==
                     IF n >= 3
                     THEN RoundHalfEven(base_speed * track_adj * distance_factor
                                          * (recent_speeds[n - 2] + recent_speeds[n]),
                                        2 * recent_speeds[n - 2])
                     ELSE base_speed * track_adj * distance_factor
             IN  Ok(min(adjusted_speed, 1200000))

\* calculate_form_score, in millionths.  Entry i (0-based) of
\* reversed(recent_finishes) is recent_finishes[total_races - i]; its weight is
\* (i + 1) / total_races and its position_score max(0, (10 - finish) / 10), so
\* weighted_sum / total_weight =
\*   SUM (i + 1) * max(0, 10 - finish) / (10 * SUM (i + 1)).
calculate_form_score(hd) ==
    LET recent_finishes == get(hd, "recent_finishes", <<5, 5, 5>>)
        total_races == Len(recent_finishes)
        weighted_sum ==
            SeqSum([k \in 1..total_races |->
                        max(0, 10 - recent_finishes[total_races - (k - 1)]) * k])
        total_weight == SeqSum([k \in 1..total_races |-> k])
    IN  IF total_races = 0 THEN Ok(500000)
        ELSE IF total_weight > 0
        THEN Ok(RoundHalfEven(weighted_sum * 100000, total_weight))
        ELSE Ok(500000)

\* class_hierarchy.get(cls, 2)
class_hierarchy ==
    [maiden |-> 1, claiming |-> 2, allowance |-> 3,
     stakes |-> 4, graded_stakes |-> 5, grade_1 |-> 6]

\* The variant of calculate_class_score whose default level for an unknown
\* class is maiden's (1) instead of claiming's (2).
calculate_class_score_default_maiden(hd) ==
    LET race_level == get(class_hierarchy, get(hd, "race_class", "claiming"), 1)
        horse_level == get(class_hierarchy, get(hd, "horse_class", "claiming"), 1)
    IN  IF horse_level > race_level THEN Ok(1200000)
        ELSE IF horse_level = race_level THEN Ok(1000000)
        ELSE Ok(800000)

\* calculate_class_score, in millionths
calculate_class_score(hd) ==
    LET current_class == get(hd, "race_class", "claiming")
        horse_class == get(hd, "horse_class", "claiming")
        race_level == get(class_hierarchy, current_class, 2)
        horse_level == get(class_hierarchy, horse_class, 2)
    IN  IF horse_level > race_level THEN Ok(1200000)
        ELSE IF horse_level = race_level THEN Ok(1000000)
        ELSE Ok(800000)

\* calculate_connection_score: <<jockey, trainer>>, in millionths; the win
\* percentages are fractions in thousandths.
calculate_connection_score(hd) ==
    LET jockey_win_pct == get(hd, "jockey_win_percentage", 100)
        trainer_win_pct == get(hd, "trainer_win_percentage", 120)
        jockey_score == min(jockey_win_pct * 4000, 1000000)
        trainer_score == min(trainer_win_pct * 4000, 1000000)
        combo_success == get(hd, "jockey_trainer_combo_win_pct", 100)
        combo_bonus == min(RoundHalfEven(combo_success * 10000, 3), 200000)
    IN  Ok(<<jockey_score + RoundHalfEven(combo_bonus, 2),
             trainer_score + RoundHalfEven(combo_bonus, 2)>>)

\* large_field_weights = {i: max(0.5, 1.0 - (i-6)*0.05) for i in range(1, 21)}
large_field_weights == [i \in 1..20 |-> max(500000, 1000000 - (i - 6) * 50000)]

\* calculate_post_position_score, in millionths
calculate_post_position_score(hd) ==
    LET post == get(hd, "post_position", 5)
        field_size == get(hd, "field_size", 10)
    IN  IF field_size <= 6 THEN Ok(1000000)
        ELSE IF field_size <= 10 THEN Ok(get(post_position_weights, post, 900000))
        ELSE Ok(get(large_field_weights, post, 600000))

\* total_score of calculate_overall_score, in millionths: speed (in
\* ten-thousandths) times its weight in hundredths, and each other sub-score
\* (in millionths) * 100 times its weight, i.e. times the weight in hundredths.
\* An exception of calculate_speed_score, the first call, propagates.
total_score(speed_score, form_score, class_score, connection, post_score) ==
    IF speed_score.exc # "" THEN speed_score
    ELSE Ok(speed_score.val * weights.speed_figure
            + form_score.val * weights.recent_form
            + class_score.val * weights.class_level
            + connection.val[1] * weights.jockey_skill
            + connection.val[2] * weights.trainer_stats
            + post_score.val * weights.post_position)

\* calculate_overall_score
calculate_overall_score(hd) ==
    total_score(calculate_speed_score(hd), calculate_form_score(hd),
                calculate_class_score(hd), calculate_connection_score(hd),
                calculate_post_position_score(hd))

(***************************************************************************)
(* np.exp in fixed point                                                   *)
(***************************************************************************)
\* a * b / 10^8 rounded down, for 0 <= a, b <= 10^8, without leaving 32 bits
MulFix8(a, b) ==
    (a \div 10000) * (b \div 10000)
        + ((a \div 10000) * (b % 10000) + (a % 10000) * (b \div 10000)
             + ((a % 10000) * (b % 10000)) \div 10000) \div 10000

\* e^(-i) * 10^8 for i = 0..16
ExpNegInt ==
    <<100000000, 36787944, 13533528, 4978707, 1831564, 673795, 247875, 91188,
      33546, 12341, 4540, 1670, 614, 226, 83, 31, 11>>

\* e^(-j/10) * 10^8 for j = 0..9
ExpNegTenth ==
    <<100000000, 90483742, 81873075, 74081822, 67032005, 60653066, 54881164,
      49658530, 44932896, 40656966>>

\* e^(-y) * 10^8 for y = r / 10^6 in [0, 0.1): the series to the fifth power,
\* 1 - y (1 - y/2 (1 - y/3 (1 - y/4 (1 - y/5))))
ExpNegSmall(r) ==
    100000000 - MulFix8(r * 100,
    100000000 - MulFix8(r * 50,
    100000000 - MulFix8((r * 100) \div 3,
    100000000 - MulFix8(r * 25,
    100000000 - r * 20))))

\* np.exp(x) * 100 for x in millionths, x <= 12: e^x = e^12 * e^(-d) with
\* d = 12 - x split into units, tenths and the rest; below 12 - 17 the result
\* is under 0.005 and comes out 0.
np_exp(x) ==
    LET d == 12000000 - x
    IN  IF d >= 17000000 THEN 0
        ELSE MulFix8(MulFix8(MulFix8(ExpNegInt[d \div 1000000 + 1],
                                     ExpNegTenth[(d % 1000000) \div 100000 + 1]),
                             ExpNegSmall(d % 100000)),
                     16275479)

RECURSIVE Quotient(_, _, _)
\* a / b to n decimal digits, the last one rounded, as an integer (0 <= a <= b)
Quotient(a, b, n) ==
    IF n = 0 THEN (IF 2 * a >= b THEN 1 ELSE 0)
    ELSE ((a * 10) \div b) * (10 ^ (n - 1)) + Quotient((a * 10) % b, b, n - 1)

(***************************************************************************)
(* predict_race                                                            *)
(***************************************************************************)
\* score_to_probability: the probability in millionths
score_to_probability(score, all_horses) ==
    LET all_scores ==
            [i \in 1..Len(all_horses) |-> calculate_overall_score(all_horses[i]).val]
        exp_scores ==
            [i \in 1..Len(all_horses) |-> np_exp(RoundHalfEven(all_scores[i], 10))]
        exp_score == np_exp(RoundHalfEven(score, 10))
    IN  Quotient(exp_score, SumFirst(exp_scores, Len(all_horses)), 6)

\* The dict predict_race appends to results for one horse, given its score
result_row(horse, score, horses_data) ==
    [Horse |-> get(horse, "name", "Unknown"),
     Score |-> RoundHalfEven(score, 10000),
     Win_Probability |-> RoundHalfEven(score_to_probability(score, horses_data), 1000),
     Beyer_Figure |-> RoundHalfEven(calculate_speed_score(horse).val, 1000),
     Form_Score |-> RoundHalfEven(calculate_form_score(horse).val, 1000),
     Class_Score |-> RoundHalfEven(calculate_class_score(horse).val, 1000),
     Jockey_Score |-> RoundHalfEven(calculate_connection_score(horse).val[1], 1000),
     Trainer_Score |-> RoundHalfEven(calculate_connection_score(horse).val[2], 1000),
     Post_Advantage |-> RoundHalfEven(calculate_post_position_score(horse).val, 1000)]

RECURSIVE predict_race_results(_, _)
\* results after the first k iterations of "for horse in horses_data"
predict_race_results(horses_data, k) ==
    IF k = 0 THEN <<>>
    ELSE Append(predict_race_results(horses_data, k - 1),
                result_row(horses_data[k], calculate_overall_score(horses_data[k]).val,
                           horses_data))

\* One row of pd.DataFrame(results): the dict under its RangeIndex label
frame_row(label, row) ==
    [index |-> label,
     Horse |-> row.Horse,
     Score |-> row.Score,
     Win_Probability |-> row.Win_Probability,
     Beyer_Figure |-> row.Beyer_Figure,
     Form_Score |-> row.Form_Score,
     Class_Score |-> row.Class_Score,
     Jockey_Score |-> row.Jockey_Score,
     Trainer_Score |-> row.Trainer_Score,
     Post_Advantage |-> row.Post_Advantage]

\* pd.DataFrame(results): the rows with the RangeIndex 0..n-1 as their labels
DataFrame(results) ==
    SubSeq([i \in 1..Len(results) |-> frame_row(i - 1, results[i])], 1, Len(results))

\* df.sort_values('Score', ascending=False): descending by the Score column,
\* each row keeping its index label.  The default kind='quicksort' is not a
\* stable sort; ties is the order this build's argsort leaves equal keys in.
sort_values(df, ties) ==
    [p \in 1..Len(df) |->
        df[CHOOSE i \in 1..Len(df) :
                Cardinality({j \in 1..Len(df) :
                                \/ df[j].Score > df[i].Score
                                \/ /\ df[j].Score = df[i].Score
                                   /\ IF ties = "input_order" THEN j < i ELSE j > i})
                    = p - 1]]

\* (results_df['Win_Probability'] / total_prob * 100).round(1) if total_prob > 0
rescaled(results_df, total_prob) ==
    IF total_prob > 0
    THEN [i \in 1..Len(results_df) |->
             [results_df[i] EXCEPT !.Win_Probability = RoundHalfEven(@ * 1000, total_prob)]]
    ELSE results_df

\* The end of predict_race: total_prob and the rescaled column
normalised(results_df) ==
    rescaled(results_df,
             SeqSum([i \in 1..Len(results_df) |-> results_df[i].Win_Probability]))

\* What predict_race returns (results_df), or the exception it raises
predict_race_returns(horses_data, ties) ==
    IF \E i \in 1..Len(horses_data) : calculate_overall_score(horses_data[i]).exc # ""
    THEN [exc |-> "ZeroDivisionError", table |-> <<>>]
    ELSE [exc |-> "",
          table |->
              normalised(sort_values(
                  DataFrame(predict_race_results(horses_data, Len(horses_data))),
                  ties))]

\* The list a call that sorted its argument in place would leave
sorted_in_place(r, horses_data) ==
    [exc |-> r.exc, table |-> r.table,
     horses_data |->
         IF r.exc # "" THEN horses_data
         ELSE [p \in 1..Len(horses_data) |-> horses_data[r.table[p].index + 1]]]

\* The variant of predict_race that sorts the caller's list in place
\* (horses_data.sort(...) instead of sorting the DataFrame built from it).
predict_race_sorting_in_place(horses_data, ties) ==
    sorted_in_place(predict_race_returns(horses_data, ties), horses_data)

\* A call's outcome r together with the caller's list after the call
call_outcome(r, horses_data) ==
    [exc |-> r.exc, table |-> r.table, horses_data |-> horses_data]

\* predict_race: what it returns or raises, and the caller's list as the call
\* leaves it (the list is passed by reference; the method only reads it).
predict_race(horses_data, ties) ==
    call_outcome(predict_race_returns(horses_data, ties), horses_data)

(***************************************************************************)
(* main(): the add-horse form.  A text input is the sequence of its        *)
(* characters.                                                             *)
(***************************************************************************)
RECURSIVE str_split(_)
\* text.split(',')
str_split(text) ==
    IF \A k \in 1..Len(text) : text[k] # ","
    THEN <<text>>
    ELSE LET k == CHOOSE c \in 1..Len(text) :
                      text[c] = "," /\ \A b \in 1..(c - 1) : text[b] # ","
         IN  <<SubSeq(text, 1, k - 1)>> \o str_split(SubSeq(text, k + 1, Len(text)))

RECURSIVE str_strip(_)
\* x.strip(), for blanks
str_strip(x) ==
    IF x # <<>> /\ Head(x) = " " THEN str_strip(Tail(x))
    ELSE IF x # <<>> /\ x[Len(x)] = " " THEN str_strip(SubSeq(x, 1, Len(x) - 1))
    ELSE x

DecimalDigits == <<"0", "1", "2", "3", "4", "5", "6", "7", "8", "9">>

RECURSIVE digits_value(_)
\* the number a non-empty run of decimal digits writes
digits_value(x) ==
    IF x = <<>> THEN 0
    ELSE digits_value(SubSeq(x, 1, Len(x) - 1)) * 10
             + (CHOOSE d \in 0..9 : DecimalDigits[d + 1] = x[Len(x)])

\* int(x): an optional sign and at least one decimal digit, else ValueError
int(x) ==
    LET signed == x # <<>> /\ Head(x) \in {"+", "-"}
        digits == IF signed THEN Tail(x) ELSE x
    IN  IF digits = <<>> \/ \E k \in 1..Len(digits) :
                                \A d \in 1..10 : DecimalDigits[d] # digits[k]
        THEN Raise("ValueError")
        ELSE Ok(IF signed /\ Head(x) = "-" THEN -digits_value(digits)
                ELSE digits_value(digits))

\* [int(x.strip()) for x in text.split(',')]
int_list(text) ==
    LET parts == str_split(text)
        parsed == [k \in 1..Len(parts) |-> int(str_strip(parts[k]))]
    IN  IF \E k \in 1..Len(parts) : parsed[k].exc # ""
        THEN Raise("ValueError")
        ELSE Ok([k \in 1..Len(parts) |-> parsed[k].val])

\* label.lower().replace(' ', '_') on the class selectboxes' options and
\* label.lower().replace('-', '_') on the track condition selectbox's options
lower_replace(label) ==
    CASE label = "Maiden" -> "maiden"
      [] label = "Claiming" -> "claiming"
      [] label = "Allowance" -> "allowance"
      [] label = "Stakes" -> "stakes"
      [] label = "Graded Stakes" -> "graded_stakes"
      [] label = "Fast" -> "fast"
      [] label = "Good" -> "good"
      [] label = "Sloppy" -> "sloppy"
      [] label = "Muddy" -> "muddy"
      [] label = "Turf-Firm" -> "turf_firm"
      [] label = "Turf-Good" -> "turf_good"

\* The widgets' initial values: the sidebar and the add-horse expander.  The
\* percentages are in tenths of a percent, the distance in tenths of a furlong.
WidgetDefaults ==
    [distance |-> 85, track_condition |-> "Fast", field_size |-> 8,
     horse_name |-> <<>>, beyer_figure |-> 85,
     recent_beyer |-> <<"8", "2", ",", "8", "4", ",", "8", "5">>,
     recent_finishes |-> <<"2", ",", "1", ",", "3">>,
     race_class |-> "Maiden", horse_class |-> "Maiden", post_position |-> 1,
     jockey_win_pct |-> 120, trainer_win_pct |-> 150, combo_win_pct |-> 200]

\* What the user has typed when "Add Horse to Race" is pressed: the initial
\* values under one name (entered any number of times), a faster horse, a horse
\* whose third-from-last figure is 0, and a finishes text that is no list of
\* integers.
AddHorseForms ==
    {[WidgetDefaults EXCEPT !.horse_name = "A"],
     [WidgetDefaults EXCEPT !.horse_name = "B", !.beyer_figure = 90],
     [WidgetDefaults EXCEPT !.horse_name = "Z",
                            !.recent_beyer = <<"0", ",", "8", "4", ",", " ", "8", "5">>],
     [WidgetDefaults EXCEPT !.horse_name = "E",
                            !.recent_finishes = <<"2", ",", "1", "s", "t">>]}

\* The dict the add-horse handler builds (value / 100 of a percentage in tenths
\* of a percent is the fraction in thousandths: the same number)
horse_data_of(w, recent_beyer_list, recent_finishes_list) ==
    [name |-> w.horse_name,
     beyer_speed_figure |-> w.beyer_figure,
     recent_beyer_figures |-> recent_beyer_list,
     recent_finishes |-> recent_finishes_list,
     race_class |-> lower_replace(w.race_class),
     horse_class |-> lower_replace(w.horse_class),
     jockey_win_percentage |-> w.jockey_win_pct,
     trainer_win_percentage |-> w.trainer_win_pct,
     jockey_trainer_combo_win_pct |-> w.combo_win_pct,
     post_position |-> w.post_position,
     field_size |-> w.field_size,
     race_distance |-> w.distance,
     track_condition |-> lower_replace(w.track_condition)]

(***************************************************************************)
(* main(): one run of the script from the prediction section on            *)
(***************************************************************************)
NoPrediction == [called |-> FALSE, exc |-> "", table |-> <<>>]

\* The run once predict_race has been called with outcome p: the predictions
\* and everything after them are rendered, the clear button last; an exception
\* out of predict_race ends the run before the button.
after_predict_race(p) ==
    [horses |-> p.horses_data,
     predictions |-> [called |-> TRUE, exc |-> p.exc, table |-> p.table],
     clear_button |-> p.exc = ""]

\* The variant of PredictionSection that offers "Clear All Horses" whenever the
\* list is not empty (the button placed outside the "at least 2" branch).
PredictionSectionClearOutside(hs, ties) ==
    IF hs # <<>> /\ Len(hs) >= 2
    THEN after_predict_race(predict_race(hs, ties))
    ELSE [horses |-> hs, predictions |-> NoPrediction, clear_button |-> hs # <<>>]

\* The variant of PredictionSection that predicts as soon as the list is not
\* empty (the "len(...) >= 2" test dropped).
PredictionSectionAnyList(hs, ties) ==
    IF hs # <<>>
    THEN after_predict_race(predict_race(hs, ties))
    ELSE [horses |-> hs, predictions |-> NoPrediction, clear_button |-> FALSE]

\* "if st.session_state.horses and len(st.session_state.horses) >= 2": the
\* prediction section; otherwise nothing of it is rendered.
PredictionSection(hs, ties) ==
    IF hs # <<>> /\ Len(hs) >= 2
    THEN after_predict_race(predict_race(hs, ties))
    ELSE [horses |-> hs, predictions |-> NoPrediction, clear_button |-> FALSE]

\* The session a script run leaves
SessionAfter(run) ==
    /\ horses' = run.horses
    /\ predictions' = run.predictions
    /\ clear_button' = run.clear_button
    /\ UNCHANGED <<argsort_ties, horse_data, returned>>

\* A run of the script that reaches the prediction section with the list hs
ScriptRun(hs) == SessionAfter(PredictionSection(hs, argsort_ties))

MaxHorses == 6

Init ==
    /\ horses = <<>>
    /\ predictions = NoPrediction
    /\ clear_button = FALSE
    /\ argsort_ties \in {"input_order", "reversed"}
    /\ horse_data = <<>>
    /\ returned = [fn |-> "", result |-> Ok(0)]

\* The list after the add-horse handler, given the two parsed texts: the
\* entry appended, or on an exception of either int() the list as it was.
after_add(hs, w, recent_beyer_list, recent_finishes_list) ==
    IF recent_beyer_list.exc # "" \/ recent_finishes_list.exc # ""
    THEN hs
    ELSE Append(hs, horse_data_of(w, recent_beyer_list.val, recent_finishes_list.val))

\* "Add Horse to Race" pressed: the two texts are parsed; on success the entry
\* is appended and st.rerun() starts the script again, on an exception the
\* error is shown and the same run goes on with the list as it was.
AddHorse(w) ==
    /\ \/ Len(horses) < MaxHorses
       \/ int_list(w.recent_beyer).exc # ""
       \/ int_list(w.recent_finishes).exc # ""
    /\ ScriptRun(after_add(horses, w, int_list(w.recent_beyer),
                           int_list(w.recent_finishes)))

\* The list after the run in which "Clear All Horses" was pressed: the run
\* reaches the button after the prediction section above it, and empties the
\* list there.
after_clear_click(run) == IF run.clear_button THEN <<>> ELSE run.horses

\* "Clear All Horses" pressed: the button exists only if the last run rendered
\* it; after the run of the click, st.rerun() starts the script again.
ClearAllHorses ==
    /\ clear_button
    /\ ScriptRun(after_clear_click(PredictionSection(horses, argsort_ties)))

\* Any other interaction (a widget edited, the expander opened, the CSV
\* downloaded): the script runs again on the same session state.
Rerun == ScriptRun(horses)

Next ==
    \/ \E w \in AddHorseForms : AddHorse(w)
    \/ ClearAllHorses
    \/ Rerun

Spec == Init /\ [][Next]_vars

(***************************************************************************)
(* Engine harness: one entry, and one scoring method applied to it.        *)
(***************************************************************************)
\* The entry main() builds from the form's initial widget values
\* (horse_data, with the name given).
FormDefaultEntry(name) ==
    [name |-> name,
     beyer_speed_figure |-> 85,
     recent_beyer_figures |-> <<82, 84, 85>>,
     recent_finishes |-> <<2, 1, 3>>,
     race_class |-> "maiden",
     horse_class |-> "maiden",
     jockey_win_percentage |-> 120,
     trainer_win_percentage |-> 150,
     jockey_trainer_combo_win_pct |-> 200,
     post_position |-> 1,
     field_size |-> 8,
     race_distance |-> 85,
     track_condition |-> "fast"]

\* The keys the scoring methods read with horse_data.get
EntryFields == DOMAIN FormDefaultEntry("A")

Without(hd, key) == [k \in (DOMAIN hd) \ {key} |-> hd[k]]

SpeedFigures == {50, 85, 120}

TrackConditions ==
    {"fast", "good", "sloppy", "muddy", "turf_firm", "turf_good", "all_weather"}

Distances == {60, 65, 70, 120}

RecentBeyerLists ==
    {<<>>, <<85>>, <<82, 84, 85>>, <<0, 84, 85>>, <<1, 60, 120>>,
     <<40, 84, 120>>, <<-2, 84, 85>>, <<90, 0, 84, 85>>}

\* Texts of the "Recent Finishes" input
RecentFinishesTexts ==
    {<<"2", ",", "1", ",", "3">>, <<"1">>, <<"1", "0">>, <<"1", "1", ",", "1", "2">>,
     <<"0">>, <<"-", "5">>, <<"1", ",", " ", "1", ",", "-", "3">>,
     <<"5", ",", "5", ",", "5", ",", "5">>, <<"+", "7">>, <<>>, <<"1", ",">>}

\* The lists the add-horse handler makes of them, and the empty list
RecentFinishesLists ==
    {<<>>} \cup {int_list(t).val : t \in {x \in RecentFinishesTexts : int_list(x).exc = ""}}

KnownClasses ==
    {"maiden", "claiming", "allowance", "stakes", "graded_stakes", "grade_1"}

ClassNames == KnownClasses \cup {"handicap"}

WinPcts == {0, 120, 250, 500}

ComboPcts == {0, 30, 200, 1000}

PostPositions == {1, 6, 8, 15, 16, 20, 21}

FieldSizes == {4, 6, 7, 10, 11, 16}

SpeedEntries ==
    {[FormDefaultEntry("A") EXCEPT !.beyer_speed_figure = b, !.track_condition = t,
                                   !.race_distance = d, !.recent_beyer_figures = r] :
        b \in SpeedFigures, t \in TrackConditions, d \in Distances,
        r \in RecentBeyerLists}

FormEntries ==
    {[FormDefaultEntry("A") EXCEPT !.recent_finishes = f] : f \in RecentFinishesLists}

ClassEntries ==
    {[FormDefaultEntry("A") EXCEPT !.race_class = rc, !.horse_class = hc] :
        rc \in ClassNames, hc \in ClassNames}

ConnectionEntries ==
    {[FormDefaultEntry("A") EXCEPT !.jockey_win_percentage = j,
                                   !.trainer_win_percentage = t,
                                   !.jockey_trainer_combo_win_pct = c] :
        j \in WinPcts, t \in WinPcts, c \in ComboPcts}

PostEntries ==
    {[FormDefaultEntry("A") EXCEPT !.post_position = pp, !.field_size = fs] :
        pp \in PostPositions, fs \in FieldSizes}

\* Entries that lack one key
PartialEntries == {Without(FormDefaultEntry("A"), k) : k \in EntryFields}

EngineEntries ==
    SpeedEntries \cup FormEntries \cup ClassEntries \cup ConnectionEntries
        \cup PostEntries \cup PartialEntries

NotCalled == [fn |-> "", result |-> Ok(0)]

EngineInit ==
    /\ horse_data \in EngineEntries
    /\ returned = NotCalled
    /\ horses = <<>>
    /\ predictions = NoPrediction
    /\ clear_button = FALSE
    /\ argsort_ties = "input_order"

Call(fn, result) ==
    /\ returned' = [fn |-> fn, result |-> result]
    /\ UNCHANGED <<horse_data, horses, predictions, clear_button, argsort_ties>>

CallSpeedScore == Call("calculate_speed_score", calculate_speed_score(horse_data))

CallFormScore == Call("calculate_form_score", calculate_form_score(horse_data))

CallClassScore == Call("calculate_class_score", calculate_class_score(horse_data))

CallConnectionScore ==
    Call("calculate_connection_score", calculate_connection_score(horse_data))

CallPostPositionScore ==
    Call("calculate_post_position_score", calculate_post_position_score(horse_data))

CallOverallScore == Call("calculate_overall_score", calculate_overall_score(horse_data))

EngineNext ==
    \/ CallSpeedScore
    \/ CallFormScore
    \/ CallClassScore
    \/ CallConnectionScore
    \/ CallPostPositionScore
    \/ CallOverallScore

EngineSpec == EngineInit /\ [][EngineNext]_vars

(***************************************************************************)
(* Properties                                                              *)
(***************************************************************************)
\* The table of the last prediction, when predict_race returned one
Predicted == predictions.called /\ predictions.exc = ""

WinProbabilitySum ==
    SeqSum([p \in 1..Len(predictions.table) |-> predictions.table[p].Win_Probability])

\* C1: for every list of N >= 2 entries the Win_Probability values that
\* predict_race returns sum to 100.0 within 0.1 (1000 +/- 1 tenths of a
\* percent), equal composite scores included.
C1_WinProbabilitiesSumTo100 ==
    (Predicted /\ Len(horses) >= 2)
        => (WinProbabilitySum >= 999 /\ WinProbabilitySum <= 1001)

\* Each input horse has exactly one row: the index labels are 0..n-1 and each
\* row is the row of the entry it is labelled with.
OneRowPerHorse ==
    /\ Len(predictions.table) = Len(horses)
    /\ {predictions.table[p].index : p \in 1..Len(predictions.table)}
           = 0..(Len(horses) - 1)
    /\ \A p \in 1..Len(predictions.table) :
           predictions.table[p].Horse = horses[predictions.table[p].index + 1].name

C3_FormScoreInUnitInterval ==
    returned.fn = "calculate_form_score"
        => (returned.result.exc = "" /\ returned.result.val >= 0
                                     /\ returned.result.val <= 1000000)

\* C4: with at least 3 recent speed figures of which the third-from-last is 0,
\* calculate_speed_score raises nothing and returns a score.
C4_ZeroDenominatorGuarded ==
    (/\ returned.fn = "calculate_speed_score"
     /\ "recent_beyer_figures" \in DOMAIN horse_data
     /\ Len(horse_data.recent_beyer_figures) >= 3
     /\ horse_data.recent_beyer_figures[Len(horse_data.recent_beyer_figures) - 2] = 0)
        => returned.result.exc = ""

\* The keys of the entry a scoring method reads
FieldsRead(fn) ==
    CASE fn = "calculate_speed_score" ->
             {"beyer_speed_figure", "track_condition", "race_distance",
              "recent_beyer_figures"}
      [] fn = "calculate_form_score" -> {"recent_finishes"}
      [] fn = "calculate_class_score" -> {"race_class", "horse_class"}
      [] fn = "calculate_connection_score" ->
             {"jockey_win_percentage", "trainer_win_percentage",
              "jockey_trainer_combo_win_pct"}
      [] fn = "calculate_post_position_score" -> {"post_position", "field_size"}
      [] fn = "calculate_overall_score" -> EntryFields \ {"name"}
      [] OTHER -> {}

\* C5: a scoring method handed an entry that lacks a field it reads fails with
\* an error; it never returns a score computed from a default.
C5_MissingFieldFails ==
    (FieldsRead(returned.fn) \ DOMAIN horse_data # {}) => returned.result.exc # ""

\* The ordinal of a class name in the order maiden < claiming < allowance <
\* stakes < graded_stakes < grade_1; any other name counts as claiming.
ClassOrder == <<"maiden", "claiming", "allowance", "stakes", "graded_stakes", "grade_1">>

Ordinal(cls) ==
    IF \E k \in 1..Len(ClassOrder) : ClassOrder[k] = cls
    THEN CHOOSE k \in 1..Len(ClassOrder) : ClassOrder[k] = cls
    ELSE CHOOSE k \in 1..Len(ClassOrder) : ClassOrder[k] = "claiming"

\* C6: for every pair (race_class, horse_class), calculate_class_score returns
\* 1.2 exactly when the horse's ordinal is greater than the race's, 1.0 exactly
\* when they are equal and 0.8 exactly when it is lower, and nothing else.
C6_ClassScoreByOrdinal ==
    (/\ returned.fn = "calculate_class_score"
     /\ {"race_class", "horse_class"} \subseteq DOMAIN horse_data)
        => /\ returned.result.exc = ""
           /\ returned.result.val \in {800000, 1000000, 1200000}
           /\ returned.result.val = 1200000
                  <=> Ordinal(horse_data.horse_class) > Ordinal(horse_data.race_class)
           /\ returned.result.val = 1000000
                  <=> Ordinal(horse_data.horse_class) = Ordinal(horse_data.race_class)
           /\ returned.result.val = 800000
                  <=> Ordinal(horse_data.horse_class) < Ordinal(horse_data.race_class)

\* C6 witness: a class outside the six known ones met the lowest class and was
\* scored as a class-dropper, and so as claiming.
C6_Witness ==
    /\ returned.fn = "calculate_class_score"
    /\ {"race_class", "horse_class"} \subseteq DOMAIN horse_data
    /\ horse_data.horse_class \notin KnownClasses
    /\ horse_data.race_class = "maiden"
    /\ returned.result.val = 1200000

C8_SpeedScoreAtMost120 ==
    (returned.fn = "calculate_speed_score" /\ returned.result.exc = "")
        => returned.result.val <= 1200000

\* C8 witness: the product of figure, multiplier and factors was over 120 and
\* 120 was returned.
C8_Witness ==
    /\ returned.fn = "calculate_speed_score"
    /\ returned.result.exc = ""
    /\ returned.result.val = 1200000
    /\ calculate_speed_score_uncapped(horse_data).val > 1200000

\* C9: after any sequence of additions and clears, the last run called
\* predict_race if and only if the list holds at least 2 entries, and called it
\* over the whole list; with 0 or 1 entries there is no prediction.
C9_PredictIffAtLeastTwo ==
    /\ predictions.called <=> Len(horses) >= 2
    /\ Predicted => OneRowPerHorse
    /\ ~predictions.called => predictions.table = <<>>

\* C9 witness: a run over a list of three entries called predict_race and got
\* a table with a row for each of the three.
C9_Witness ==
    /\ Len(horses) = 3
    /\ Predicted
    /\ Len(predictions.table) = 3
    /\ {predictions.table[p].index : p \in 1..3} = {0, 1, 2}

\* C10: "Clear All Horses" is offered only by a run whose list holds at least 2
\* entries and whose predict_race returned; and every step leaves the list as
\* it was, appends one entry to it, or empties it from a state where the
\* button is offered (so a list of exactly one entry is never emptied).
C10_ClearOnlyAfterPrediction ==
    /\ [](clear_button => (Len(horses) >= 2 /\ Predicted))
    /\ [][\/ horses' = horses
          \/ /\ Len(horses') = Len(horses) + 1
             /\ SubSeq(horses', 1, Len(horses)) = horses
          \/ /\ horses' = <<>>
             /\ clear_button
             /\ Len(horses) >= 2
             /\ Predicted]_vars

\* C10 witness: a list of at least 2 entries for which predict_race raised, so
\* that the run ended before the button: nothing can empty this list.
C10_Witness ==
    /\ Len(horses) >= 2
    /\ predictions.called
    /\ predictions.exc # ""
    /\ ~clear_button
    /\ ~ENABLED ClearAllHorses

====
